---- MODULE Spec2Model ----
(***************************************************************************)
(* A model of JobFit-AI.py: the language-model client (LLMClient), the     *)
(* three-stage analysis pipeline driven by main(), and the resume          *)
(* re-flow of generate_updated_resume.                                     *)
(*                                                                         *)
(* Texts are sequences of lexemes.  For the structured-text parser the     *)
(* lexemes are "{", "}", "[", "]", ",", the key lexeme "k" (the JSON       *)
(* member name "k" together with its colon), the digit "1" (a run of       *)
(* digits is one number literal), white space (" " and "\n"), and the     *)
(* prose character "w", which is no JSON lexeme at all.                    *)
(***************************************************************************)
EXTENDS Integers, Sequences, FiniteSets, TLC

VARIABLES
    raw,            \* LLMClient.generate_json: the text generate_text returned
    jsonOut,        \* LLMClient.generate_json: what the call did and returned
    resume_text,    \* generate_updated_resume: its first argument
    match_analysis, \* generate_updated_resume: its second argument
    resumeOut,      \* generate_updated_resume: the flowables handed to doc.build
    pc,             \* main: the statement the run is at
    inputs,         \* main: what the widgets, the secrets and the environment hold
    api_key,        \* main: the resolved credential
    llm,            \* main: the client, once constructed
    job_analysis,   \* main: what analyze_job returned
    resume_analysis,\* main: what analyze_resume returned
    calls,          \* the backend calls of this run, in order
    page,           \* what this run put on the page, in order
    genai,          \* the google.generativeai module: its configured key, its handles
    response        \* LLMClient._first_text: the response it is handed

extractVars == <<raw, jsonOut>>
resumeVars  == <<resume_text, match_analysis, resumeOut>>
mainVars    == <<pc, inputs, api_key, llm, job_analysis, resume_analysis, calls, page>>
clientVars  == <<genai, response>>
vars == <<raw, jsonOut, resume_text, match_analysis, resumeOut,
          pc, inputs, api_key, llm, job_analysis, resume_analysis, calls, page,
          genai, response>>

(***************************************************************************)
(* Bounds                                                                  *)
(***************************************************************************)
MaxRawLen == 5
MaxLines  == 4
MaxCands  == 2
MaxParts  == 2
MaxCalls  == 2

(***************************************************************************)
(* Sequences of lexemes                                                    *)
(***************************************************************************)
JsonChars == {"{", "}", "[", "]", ",", "k", "1", "w", " "}

SeqsUpTo(S, n) == UNION {[1..m -> S] : m \in 0..n}

Slice(s, i, j) == IF i > j THEN << >> ELSE SubSeq(s, i, j)

\* i is the start of an occurrence of sub in s
OccursAt(sub, s, i) ==
    /\ i >= 1
    /\ i + Len(sub) - 1 <= Len(s)
    /\ \A j \in 1..Len(sub) : s[i + j - 1] = sub[j]

IsSubstring(sub, s) == \E i \in 1..(Len(s) + 1) : OccursAt(sub, s, i)

(***************************************************************************)
(* Python values, as json.loads builds them.  Every value is a record      *)
(* [t, v]: a dict keeps its items as <<key, value>> pairs in insertion     *)
(* order, a list keeps its elements, a number keeps its digits.            *)
(***************************************************************************)
PyInt(ds)   == [t |-> "int",  v |-> ds]
PyDict(its) == [t |-> "dict", v |-> its]
PyList(els) == [t |-> "list", v |-> els]
PyStr(cs)   == [t |-> "str",  v |-> cs]
PyNone      == [t |-> "none", v |-> << >>]
EmptyDict   == PyDict(<< >>)

IsDict(x) == x.t = "dict"

\* dict[key] = val: a repeated key keeps its place and takes the new value
DictSet(its, key, val) ==
    IF \E i \in 1..Len(its) : its[i][1] = key
    THEN [i \in 1..Len(its) |-> IF its[i][1] = key THEN <<key, val>> ELSE its[i]]
    ELSE Append(its, <<key, val>>)

HasKey(d, key) == \E i \in 1..Len(d.v) : d.v[i][1] = key

\* d.get(key, default)
DictGet(d, key, default) ==
    IF HasKey(d, key)
    THEN d.v[CHOOSE i \in 1..Len(d.v) : d.v[i][1] = key][2]
    ELSE default

\* bool(x): None and empty containers and strings are false; the numbers
\* 1, 11, ... are true
Truthy(x) ==
    CASE x.t = "none" -> FALSE
      [] x.t = "int"  -> TRUE
      [] OTHER        -> Len(x.v) > 0

(***************************************************************************)
(* json.loads: a recursive-descent parse of one value starting at index i. *)
(* The result is [ok, val, end]: end is the index after the value.         *)
(***************************************************************************)
Fail == [ok |-> FALSE, val |-> PyInt(<< >>), end |-> 0]
Ok(val, end) == [ok |-> TRUE, val |-> val, end |-> end]

\* the index after the run of digits that starts at i
RECURSIVE DigitsEnd(_, _)
DigitsEnd(s, i) == IF i <= Len(s) /\ s[i] = "1" THEN DigitsEnd(s, i + 1) ELSE i

\* the index of the first character at or after i that is no white space
RECURSIVE SkipWs(_, _)
SkipWs(s, i) == IF i <= Len(s) /\ s[i] \in {" ", "\n"} THEN SkipWs(s, i + 1) ELSE i

RECURSIVE ParseValue(_, _)
RECURSIVE ParseMembers(_, _, _)
RECURSIVE ParseElements(_, _, _)

\* at a member: a key lexeme, a value, then "," or "}"
ParseMembers(s, i, its) ==
    IF i > Len(s) \/ s[i] # "k" THEN Fail
    ELSE LET r == ParseValue(s, SkipWs(s, i + 1)) IN
         IF ~r.ok THEN Fail
         ELSE LET its2 == DictSet(its, "k", r.val)
                  e    == SkipWs(s, r.end)
              IN  IF e > Len(s) THEN Fail
                  ELSE IF s[e] = "}" THEN Ok(PyDict(its2), e + 1)
                  ELSE IF s[e] = "," THEN ParseMembers(s, SkipWs(s, e + 1), its2)
                  ELSE Fail

\* at an element: a value, then "," or "]"
ParseElements(s, i, els) ==
    LET r == ParseValue(s, i) IN
    IF ~r.ok THEN Fail
    ELSE LET els2 == Append(els, r.val)
             e    == SkipWs(s, r.end)
         IN  IF e > Len(s) THEN Fail
             ELSE IF s[e] = "]" THEN Ok(PyList(els2), e + 1)
             ELSE IF s[e] = "," THEN ParseElements(s, SkipWs(s, e + 1), els2)
             ELSE Fail

\* one value that starts at i, where i is no white space
ParseValue(s, i) ==
    IF i > Len(s) THEN Fail
    ELSE IF s[i] = "1" THEN
        LET e == DigitsEnd(s, i) IN Ok(PyInt(Slice(s, i, e - 1)), e)
    ELSE IF s[i] = "{" THEN
        LET n == SkipWs(s, i + 1) IN
        IF n <= Len(s) /\ s[n] = "}" THEN Ok(EmptyDict, n + 1)
        ELSE ParseMembers(s, n, << >>)
    ELSE IF s[i] = "[" THEN
        LET n == SkipWs(s, i + 1) IN
        IF n <= Len(s) /\ s[n] = "]" THEN Ok(PyList(<< >>), n + 1)
        ELSE ParseElements(s, n, << >>)
    ELSE Fail

\* json.loads(s): white space, one value, white space and nothing after it,
\* else JSONDecodeError
json_loads(s) ==
    LET r == ParseValue(s, SkipWs(s, 1)) IN
    IF r.ok /\ SkipWs(s, r.end) = Len(s) + 1 THEN [ok |-> TRUE, val |-> r.val]
    ELSE [ok |-> FALSE, val |-> PyInt(<< >>)]

(***************************************************************************)
(* json.dumps(x, indent=2)                                                 *)
(***************************************************************************)
\* the indentation of nesting level lvl: two spaces a level
Indent(lvl) == [i \in 1..(2 * lvl) |-> " "]

RECURSIVE json_dumps_at(_, _)
RECURSIVE dumps_items(_, _, _, _)

\* the items from the i-th on, one a line, "," between them
dumps_items(x, i, lvl, isdict) ==
    LET head == Indent(lvl + 1)
                \o (IF isdict THEN <<x.v[i][1], " ">> \o json_dumps_at(x.v[i][2], lvl + 1)
                    ELSE json_dumps_at(x.v[i], lvl + 1))
    IN  IF i = Len(x.v) THEN head \o <<"\n">>
        ELSE head \o <<",", "\n">> \o dumps_items(x, i + 1, lvl, isdict)

json_dumps_at(x, lvl) ==
    CASE x.t = "int"  -> x.v
      [] x.t = "dict" -> IF Len(x.v) = 0 THEN <<"{", "}">>
                         ELSE <<"{", "\n">> \o dumps_items(x, 1, lvl, TRUE)
                              \o Indent(lvl) \o <<"}">>
      [] x.t = "list" -> IF Len(x.v) = 0 THEN <<"[", "]">>
                         ELSE <<"[", "\n">> \o dumps_items(x, 1, lvl, FALSE)
                              \o Indent(lvl) \o <<"]">>

json_dumps(x) == json_dumps_at(x, 0)

(***************************************************************************)
(* The two regular expressions of generate_json.  Both are greedy: the     *)
(* match starts at the leftmost "{" from which the pattern can match and   *)
(* extends to the last "}" the pattern allows.                             *)
(***************************************************************************)
NoMatch == [found |-> FALSE, from |-> 0, to |-> 0]

Positions(s, c) == {i \in 1..Len(s) : s[i] = c}

Min(S) == CHOOSE x \in S : \A y \in S : x <= y
Max(S) == CHOOSE x \in S : \A y \in S : x >= y

\* re.search(r"\{[\s\S]*\}$", s): s is stripped, so $ is the end of s
search_to_end(s) ==
    LET opens == {i \in Positions(s, "{") : i < Len(s) /\ s[Len(s)] = "}"} IN
    IF opens = {} THEN NoMatch
    ELSE [found |-> TRUE, from |-> Min(opens), to |-> Len(s)]

\* re.search(r"\{[\s\S]*\}", s)
search_anywhere(s) ==
    LET opens == {i \in Positions(s, "{") : \E j \in Positions(s, "}") : j > i} IN
    IF opens = {} THEN NoMatch
    ELSE [found |-> TRUE, from |-> Min(opens), to |-> Max(Positions(s, "}"))]

\* match.group(0)
group0(s, m) == Slice(s, m.from, m.to)

(***************************************************************************)
(* LLMClient.generate_json, from the text generate_text returned.          *)
(* ret is the returned value; steps lists, in order, what the call ran.    *)
(***************************************************************************)
\* a slip that searches for the brace span before trying the whole text
generate_json_span_first(text) ==
    LET m1   == search_to_end(text)
        m    == IF m1.found THEN m1 ELSE search_anywhere(text)
        span == json_loads(group0(text, m))
        whole == json_loads(text)
    IN  IF m.found /\ span.ok
        THEN [ret |-> span.val, steps |-> <<"search_to_end", "loads_span">>]
        ELSE IF whole.ok
        THEN [ret |-> whole.val, steps |-> <<"search_to_end", "loads_raw">>]
        ELSE [ret |-> EmptyDict, steps |-> <<"search_to_end", "loads_raw">>]

generate_json(text) ==
    LET whole == json_loads(text) IN
    IF whole.ok THEN [ret |-> whole.val, steps |-> <<"loads_raw">>]
    ELSE
        LET m1    == search_to_end(text)
            m     == IF m1.found THEN m1 ELSE search_anywhere(text)
            srch  == IF m1.found THEN <<"search_to_end">>
                     ELSE <<"search_to_end", "search_anywhere">>
        IN  IF m.found
            THEN LET span == json_loads(group0(text, m)) IN
                 IF span.ok
                 THEN [ret |-> span.val,
                       steps |-> <<"loads_raw">> \o srch \o <<"loads_span">>]
                 ELSE [ret |-> EmptyDict,
                       steps |-> <<"loads_raw">> \o srch \o <<"loads_span">>]
            ELSE [ret |-> EmptyDict, steps |-> <<"loads_raw">> \o srch]

NotCalled == [ret |-> EmptyDict, steps |-> << >>]

(***************************************************************************)
(* Resume text.  A text is a sequence of characters; "\n" ends a line and  *)
(* " " is white space.  The letters are the ones the lines below use.      *)
(***************************************************************************)
UpperLetters == {"A", "D", "E", "I", "K", "L", "M", "R", "S", "U", "W", "Y"}
LowerLetters == {"d", "e", "i", "k", "l", "s"}

UpperOf == ("d" :> "D") @@ ("e" :> "E") @@ ("i" :> "I") @@ ("k" :> "K")
           @@ ("l" :> "L") @@ ("s" :> "S")

\* str.upper()
upper(s) == [i \in 1..Len(s) |-> IF s[i] \in LowerLetters THEN UpperOf[s[i]] ELSE s[i]]

\* str.isupper(): some cased character, and no lower-case one
isupper(s) ==
    /\ \E i \in 1..Len(s) : s[i] \in UpperLetters
    /\ \A i \in 1..Len(s) : s[i] \notin LowerLetters

\* str.strip()
strip(s) ==
    LET ink == {i \in 1..Len(s) : s[i] # " " /\ s[i] # "\n"} IN
    IF ink = {} THEN << >> ELSE SubSeq(s, Min(ink), Max(ink))

\* str.splitlines(): a trailing line end opens no further line
RECURSIVE splitlines(_)
splitlines(s) ==
    IF s = << >> THEN << >>
    ELSE LET ends == Positions(s, "\n") IN
         IF ends = {} THEN <<s>>
         ELSE LET e == Min(ends) IN
              <<Slice(s, 1, e - 1)>> \o splitlines(Slice(s, e + 1, Len(s)))

\* [line.strip() for line in resume_text.splitlines() if line.strip()]
resume_parts(text) ==
    LET ls   == splitlines(text)
        keep == SelectSeq(ls, LAMBDA l : strip(l) # << >>)
    IN  [i \in 1..Len(keep) |-> strip(keep[i])]

common_sections == {
    <<"E", "X", "P", "E", "R", "I", "E", "N", "C", "E">>,
    <<"E", "D", "U", "C", "A", "T", "I", "O", "N">>,
    <<"S", "K", "I", "L", "L", "S">>,
    <<"P", "R", "O", "J", "E", "C", "T", "S">>,
    <<"C", "E", "R", "T", "I", "F", "I", "C", "A", "T", "I", "O", "N", "S">>,
    <<"S", "U", "M", "M", "A", "R", "Y">>,
    <<"O", "B", "J", "E", "C", "T", "I", "V", "E">>}

\* a classification that looks for the keywords alone
is_section_keywords_only(line) ==
    \E section \in common_sections : IsSubstring(section, upper(line))

\* line.isupper() or any(section in line.upper() for section in common_sections)
is_section(line) ==
    isupper(line) \/ \E section \in common_sections : IsSubstring(section, upper(line))

(***************************************************************************)
(* The flowables of the document                                           *)
(***************************************************************************)
Paragraph(text, style) == [kind |-> "Paragraph", text |-> text, style |-> style, height |-> 0]
Spacer(h) == [kind |-> "Spacer", text |-> << >>, style |-> "none", height |-> h]

BulletMark == <<"*", " ">>     \* the bullet glyph and a space

\* flush_bullets(): the pending lines, each as a bullet, appended to content
flush_bullets(content, bullets) ==
    content \o [i \in 1..Len(bullets) |-> Paragraph(BulletMark \o bullets[i], "bullet_style")]

\* the for loop over resume_parts, from part i on; the result is what the
\* loop leaves in content and in bullets
RECURSIVE reflow_loop(_, _, _, _)
reflow_loop(parts, i, content, bullets) ==
    IF i > Len(parts) THEN [content |-> content, bullets |-> bullets]
    ELSE IF is_section(parts[i])
         THEN reflow_loop(parts, i + 1,
                  flush_bullets(content, bullets)
                      \o <<Spacer(12), Paragraph(parts[i], "section_header_style")>>,
                  << >>)
         ELSE reflow_loop(parts, i + 1, content, Append(bullets, parts[i]))

\* a slip that forgets the flush after the loop
reflow_no_final_flush(parts) == reflow_loop(parts, 1, << >>, << >>).content

\* the loop and the flush that follows it
reflow(parts) ==
    LET r == reflow_loop(parts, 1, << >>, << >>) IN flush_bullets(r.content, r.bullets)

(***************************************************************************)
(* The block of suggestions                                                *)
(***************************************************************************)
SuggestionKey == "ats_optimization_suggestions"

\* str(x) inside an f-string
Str(x) == IF x.t = "none" THEN <<"N", "o", "n", "e">> ELSE x.v

\* ", ".join(xs)
RECURSIVE join_comma(_)
join_comma(xs) ==
    IF Len(xs) = 0 THEN << >>
    ELSE IF Len(xs) = 1 THEN xs[1].v
    ELSE xs[1].v \o <<",", " ">> \o join_comma(Tail(xs))

\* the optional line of one field: nothing when the value is false
field_line(label, x, shown) ==
    IF shown THEN <<Paragraph(<<label>> \o Str(x), "recommendation_style")>> ELSE << >>

\* a slip that renders the reason line without looking at the value
render_suggestion_always_reason(s) ==
    LET section   == DictGet(s, "section", PyStr(<< >>))
        current   == DictGet(s, "current_content", PyStr(<< >>))
        suggested == DictGet(s, "suggested_change", PyStr(<< >>))
        kwlist    == DictGet(s, "keywords_to_add", PyList(<< >>))
        keywords  == PyStr(join_comma(IF Truthy(kwlist) THEN kwlist.v ELSE << >>))
        formatting == DictGet(s, "formatting_suggestion", PyStr(<< >>))
        reason    == DictGet(s, "reason", PyStr(<< >>))
    IN  <<Paragraph(<<"* Section: ">> \o Str(section), "recommendation_style")>>
        \o field_line("  Current: ", current, Truthy(current))
        \o field_line("  Suggestion: ", suggested, Truthy(suggested))
        \o field_line("  Keywords to Add: ", keywords, Truthy(keywords))
        \o field_line("  Formatting: ", formatting, Truthy(formatting))
        \o field_line("  Reason: ", reason, TRUE)
        \o <<Spacer(6)>>

\* the body of "for s in suggestions"
render_suggestion(s) ==
    LET section   == DictGet(s, "section", PyStr(<< >>))
        current   == DictGet(s, "current_content", PyStr(<< >>))
        suggested == DictGet(s, "suggested_change", PyStr(<< >>))
        kwlist    == DictGet(s, "keywords_to_add", PyList(<< >>))
        keywords  == PyStr(join_comma(IF Truthy(kwlist) THEN kwlist.v ELSE << >>))
        formatting == DictGet(s, "formatting_suggestion", PyStr(<< >>))
        reason    == DictGet(s, "reason", PyStr(<< >>))
    IN  <<Paragraph(<<"* Section: ">> \o Str(section), "recommendation_style")>>
        \o field_line("  Current: ", current, Truthy(current))
        \o field_line("  Suggestion: ", suggested, Truthy(suggested))
        \o field_line("  Keywords to Add: ", keywords, Truthy(keywords))
        \o field_line("  Formatting: ", formatting, Truthy(formatting))
        \o field_line("  Reason: ", reason, Truthy(reason))
        \o <<Spacer(6)>>

RECURSIVE render_all(_)
render_all(ss) ==
    IF Len(ss) = 0 THEN << >> ELSE render_suggestion(ss[1]) \o render_all(Tail(ss))

AtsTitle == <<"ATS Optimization Recommendations">>

\* a slip that tests the key instead of the list
ats_block_if_key(match) ==
    LET m           == IF Truthy(match) THEN match ELSE EmptyDict
        suggestions == DictGet(m, SuggestionKey, PyList(<< >>))
    IN  IF HasKey(m, SuggestionKey)
        THEN <<Spacer(20), Paragraph(AtsTitle, "section_header_style"), Spacer(10)>>
             \o render_all(IF Truthy(suggestions) THEN suggestions.v ELSE << >>)
        ELSE << >>

\* suggestions = (match_analysis or {}).get(...); if suggestions: ...
ats_block(match) ==
    LET m           == IF Truthy(match) THEN match ELSE EmptyDict
        suggestions == DictGet(m, SuggestionKey, PyList(<< >>))
    IN  IF Truthy(suggestions)
        THEN <<Spacer(20), Paragraph(AtsTitle, "section_header_style"), Spacer(10)>>
             \o render_all(suggestions.v)
        ELSE << >>

\* generate_updated_resume: the content list it hands to doc.build
generate_updated_resume(text, match) ==
    <<Paragraph(<<"Updated Resume">>, "header_style"), Spacer(12)>>
    \o reflow(resume_parts(text))
    \o ats_block(match)

(***************************************************************************)
(* LLMClient: the constructor, the reading of a response, generate_text.   *)
(* Temperatures are counted in tenths: 2 is 0.2, 15 is 1.5.                *)
(***************************************************************************)
SUPPORTED_MODELS == <<"models/gemini-2.0-flash", "models/gemini-pro">>

PyFloat(x) == [t |-> "float", v |-> <<x>>]

\* the default of the constructor's temperature parameter, 0.2
DefaultTemperature == 2

\* the genai module before genai.configure, and the absence of a client
NotConfigured == [api_key |-> PyNone, handles |-> 0]
NoClient == PyNone

\* a constructor with the credential check left out
LLMClient_init_unchecked(g, key, model_name, temperature, library_ok) ==
    IF ~library_ok
    THEN [raised |-> "Exception", genai |-> [g EXCEPT !.api_key = key], self |-> NoClient]
    ELSE [raised |-> "no",
          genai  |-> [api_key |-> key, handles |-> 1],
          self   |-> [model_name  |-> IF \E i \in 1..Len(SUPPORTED_MODELS) :
                                            SUPPORTED_MODELS[i] = model_name
                                         THEN model_name ELSE SUPPORTED_MODELS[1],
                      temperature |-> temperature]]

\* LLMClient.__init__: the credential check, genai.configure, the model
\* name, float(temperature), genai.GenerativeModel.  library_ok is whether
\* genai.GenerativeModel returns; when it raises, genai is configured already
LLMClient_init(g, key, model_name, temperature, library_ok) ==
    IF ~Truthy(key)
    THEN [raised |-> "ValueError", genai |-> g, self |-> NoClient]
    ELSE IF ~library_ok
    THEN [raised |-> "Exception", genai |-> [g EXCEPT !.api_key = key], self |-> NoClient]
    ELSE [raised |-> "no",
          genai  |-> [api_key |-> key, handles |-> 1],
          self   |-> [model_name  |-> IF \E i \in 1..Len(SUPPORTED_MODELS) :
                                            SUPPORTED_MODELS[i] = model_name
                                         THEN model_name ELSE SUPPORTED_MODELS[1],
                      temperature |-> temperature]]

\* the shapes of a response: reading .text raises or gives None or a str;
\* .candidates is missing or a sequence of candidates; a candidate has no
\* .content.parts or a sequence of parts; a part has no .text, or a .text
TextRaises == [t |-> "raises", v |-> << >>]
Missing    == [t |-> "missing", v |-> << >>]
Broken     == [t |-> "broken", v |-> << >>]
NoTextAttr == [t |-> "noattr", v |-> << >>]

\* the candidates of a response, and the parts of a candidate
Candidates(cs) == [t |-> "candidates", v |-> cs]
Parts(ps) == [t |-> "parts", v |-> ps]

Response(text, candidates) == [text |-> text, candidates |-> candidates]

\* a response whose .text is the str s
TextResponse(s) == Response(PyStr(s), Candidates(<< >>))

NoResponse == Response(PyNone, Candidates(<< >>))

\* "\n".join(xs)
join_newline(xs) ==
    LET RECURSIVE go(_)
        go(i) == IF i > Len(xs) THEN << >>
                 ELSE IF i = Len(xs) THEN xs[i]
                 ELSE xs[i] \o <<"\n">> \o go(i + 1)
    IN  go(1)

\* (response.text or "").strip(): raises when the property raises, and when
\* a truthy value that is no str has no strip
aggregated_text(resp) ==
    IF resp.text.t = "raises" THEN [ok |-> FALSE, val |-> << >>]
    ELSE IF ~Truthy(resp.text) THEN [ok |-> TRUE, val |-> << >>]
    ELSE IF resp.text.t # "str" THEN [ok |-> FALSE, val |-> << >>]
    ELSE [ok |-> TRUE, val |-> strip(resp.text.v)]

\* part.text for part in cand.content.parts if getattr(part, "text", None)
parts_texts(cand) ==
    LET RECURSIVE go(_)
        go(i) == IF i > Len(cand.v) THEN << >>
                 ELSE IF cand.v[i].t # "noattr" /\ Truthy(cand.v[i])
                 THEN <<cand.v[i]>> \o go(i + 1)
                 ELSE go(i + 1)
    IN  go(1)

\* the generator over response.candidates: the truthy texts in order;
\* reading the candidates of a response without them raises, and so does
\* reading the parts of a candidate without them
fragments(resp) ==
    IF resp.candidates.t = "missing" THEN [ok |-> FALSE, val |-> << >>]
    ELSE LET cs == resp.candidates.v
             RECURSIVE go(_)
             go(i) == IF i > Len(cs) THEN << >> ELSE parts_texts(cs[i]) \o go(i + 1)
         IN  IF \E i \in 1..Len(cs) : cs[i].t = "broken"
             THEN [ok |-> FALSE, val |-> << >>]
             ELSE [ok |-> TRUE, val |-> go(1)]

\* "\n".join(...).strip(): join raises on an item that is no str
joined_fragments(resp) ==
    LET f == fragments(resp) IN
    IF ~f.ok THEN [ok |-> FALSE, val |-> << >>]
    ELSE IF \E i \in 1..Len(f.val) : f.val[i].t # "str"
    THEN [ok |-> FALSE, val |-> << >>]
    ELSE [ok |-> TRUE, val |-> strip(join_newline([i \in 1..Len(f.val) |-> f.val[i].v]))]

\* a reading that gives up when the aggregated field cannot be read
first_text_no_fallback(resp) ==
    LET a == aggregated_text(resp) IN
    IF a.ok THEN a.val ELSE << >>

\* LLMClient._first_text
first_text(resp) ==
    LET a == aggregated_text(resp) IN
    IF a.ok THEN a.val
    ELSE LET j == joined_fragments(resp) IN
         IF j.ok THEN j.val ELSE << >>

\* what a backend call can do instead of answering
Raises == [raises |-> "backend_error"]

\* LLMClient.generate_text: the configuration, the one generate_content
\* call, and the reading of its response.  temperature is PyNone when the
\* call gives none
generate_text(self, prompt, temperature, answer) ==
    LET sent == IF temperature = PyNone THEN self.temperature ELSE temperature IN
    IF answer = Raises
    THEN [prompt |-> prompt, temperature |-> sent, raised |-> TRUE, ret |-> << >>]
    ELSE [prompt |-> prompt, temperature |-> sent, raised |-> FALSE,
          ret |-> first_text(answer)]

(***************************************************************************)
(* The extractor on its own: any text the backend can return, then one     *)
(* call of generate_json on it.                                            *)
(***************************************************************************)
\* _first_text strips the text: it neither starts nor ends with white space
Stripped(s) == s = << >> \/ (s[1] \notin {" ", "\n"} /\ s[Len(s)] \notin {" ", "\n"})

NotBuilt == [built |-> FALSE, content |-> << >>]

ResumeIdle ==
    /\ resume_text = << >>
    /\ match_analysis = PyNone
    /\ resumeOut = NotBuilt

NoInputs == [user_input_key |-> PyNone, secret |-> PyNone, env |-> PyNone,
             job_desc |-> << >>, resume_file |-> "none", file_text |-> PyNone,
             generate_btn |-> FALSE, client_ok |-> TRUE,
             model_choice |-> SUPPORTED_MODELS[1]]

ClientIdle ==
    /\ genai = NotConfigured
    /\ response = NoResponse

\* main() has read nothing, resolved nothing and called nothing
MainData ==
    /\ inputs = NoInputs
    /\ api_key = PyNone
    /\ llm = NoClient
    /\ job_analysis = PyNone
    /\ resume_analysis = PyNone
    /\ calls = << >>
    /\ page = << >>

MainIdle ==
    /\ ClientIdle
    /\ pc = "idle"
    /\ inputs = NoInputs
    /\ api_key = PyNone
    /\ llm = NoClient
    /\ job_analysis = PyNone
    /\ resume_analysis = PyNone
    /\ calls = << >>
    /\ page = << >>

InitExtract ==
    /\ raw \in {s \in SeqsUpTo(JsonChars, MaxRawLen) : Stripped(s)}
    /\ jsonOut = NotCalled
    /\ ResumeIdle
    /\ MainIdle

GenerateJson ==
    /\ jsonOut.steps = << >>
    /\ jsonOut' = generate_json(raw)
    /\ UNCHANGED <<raw, resumeVars, mainVars>>
    /\ UNCHANGED clientVars

NextExtract == GenerateJson

SpecExtract == InitExtract /\ [][NextExtract]_vars

(***************************************************************************)
(* The reconstruction on its own: a resume text and a match report, then   *)
(* one call of generate_updated_resume.                                    *)
(***************************************************************************)
ResumeLines == {
    << >>,
    <<" ">>,
    <<" ", "L", "e", "d", " ">>,
    <<"s", "k", "i", "l", "l", "s", " ", "S", "U", "M", "M", "A", "R", "Y">>,
    <<"A", "W", "S">>,
    <<"4", "2">>}

RECURSIVE JoinLines(_)
JoinLines(ls) ==
    IF Len(ls) = 0 THEN << >>
    ELSE IF Len(ls) = 1 THEN ls[1]
    ELSE ls[1] \o <<"\n">> \o JoinLines(Tail(ls))

ResumeTexts == {JoinLines(ls) : ls \in SeqsUpTo(ResumeLines, MaxLines)}

FewTexts == {<< >>, JoinLines(<< <<"S", "K", "I", "L", "L", "S">>, <<"L", "e", "d">> >>)}

\* the fields of a suggestion whose value is a string, and what they may hold
StrFields == {"section", "current_content", "suggested_change",
              "formatting_suggestion", "reason"}
FieldOrder == <<"section", "current_content", "suggested_change",
                "keywords_to_add", "formatting_suggestion", "reason">>
Absent == [t |-> "absent", v |-> << >>]
StrChoices == {Absent, PyNone, PyStr(<< >>), PyStr(<<"x">>)}
KwChoices == {Absent, PyNone, PyList(<< >>), PyList(<<PyStr(<< >>)>>),
              PyList(<<PyStr(<<"x">>)>>), PyList(<<PyStr(<<"x">>), PyStr(<<"y">>)>>)}

\* the suggestion that holds the chosen values, absent fields left out
MakeSuggestion(f, kw) ==
    LET all  == [i \in 1..Len(FieldOrder) |->
                    <<FieldOrder[i],
                      IF FieldOrder[i] = "keywords_to_add" THEN kw ELSE f[FieldOrder[i]]>>]
    IN  PyDict(SelectSeq(all, LAMBDA it : it[2] # Absent))

Suggestions == {MakeSuggestion(f, kw) : f \in [StrFields -> StrChoices], kw \in KwChoices}

OnlySectionAndReason ==
    PyDict(<< <<"section", PyStr(<<"x">>)>>, <<"reason", PyStr(<<"x">>)>> >>)

FewSuggestions == {
    OnlySectionAndReason,
    PyDict(<< <<"reason", PyStr(<<"x">>)>> >>),
    PyDict(<< <<"section", PyStr(<<"x">>)>>, <<"current_content", PyStr(<<"x">>)>>,
              <<"keywords_to_add", PyList(<<PyStr(<<"x">>)>>)>> >>)}

WithSuggestions(ss) ==
    PyDict(<< <<"overall_match_percentage", PyStr(<<"8", "5", "%">>)>>,
              <<SuggestionKey, PyList(ss)>> >>)

Reports ==
    {PyNone, EmptyDict,
     PyDict(<< <<"overall_match_percentage", PyStr(<<"8", "5", "%">>)>> >>),
     PyDict(<< <<SuggestionKey, PyNone>> >>),
     WithSuggestions(<< >>)}
    \cup {WithSuggestions(<<s>>) : s \in Suggestions}
    \cup {WithSuggestions(<<s1, s2>>) : s1 \in FewSuggestions, s2 \in FewSuggestions}

FewReports == {PyNone, WithSuggestions(<< >>), WithSuggestions(<<OnlySectionAndReason>>)}

ExtractIdle ==
    /\ raw = << >>
    /\ jsonOut = NotCalled

InitResume ==
    /\ \/ resume_text \in ResumeTexts /\ match_analysis \in FewReports
       \/ resume_text \in FewTexts /\ match_analysis \in Reports
    /\ resumeOut = NotBuilt
    /\ ExtractIdle
    /\ MainIdle

GenerateUpdatedResume ==
    /\ ~resumeOut.built
    /\ resumeOut' = [built |-> TRUE,
                     content |-> generate_updated_resume(resume_text, match_analysis)]
    /\ UNCHANGED <<resume_text, match_analysis, extractVars, mainVars>>
    /\ UNCHANGED clientVars

NextResume == GenerateUpdatedResume

SpecResume == InitResume /\ [][NextResume]_vars

(***************************************************************************)
(* main(): one run of the page script.  The widgets, the secrets and the   *)
(* environment are read as they stand when the run starts; every backend   *)
(* call is answered by a text or by an error the backend raises.           *)
(***************************************************************************)
\* resolve_api_key_from_inputs: sidebar input, then st.secrets, then env
resolve_api_key_from_inputs(user_input_key, secret, env) ==
    IF Truthy(user_input_key) THEN PyStr(strip(user_input_key.v))
    ELSE IF secret # Absent THEN secret
    ELSE env

\* the prompts of the three stages and of the cover letter
job_prompt(job_description) ==
    <<"Analyze this job description ...", "Job Description:", "\n">> \o job_description

resume_prompt(text) ==
    <<"Analyze this resume ...", "Resume:", "\n">> \o text

\* a slip that serialises the job profile in both places
match_prompt_job_twice(job, resume) ==
    <<"You are a professional resume analyzer ...", "\n", "\n",
      "Job Requirements:", "\n">> \o json_dumps(job)
    \o <<"\n", "\n", "Resume Details:", "\n">> \o json_dumps(job)
    \o <<"\n", "\n", "JSON schema example (use same keys, replace values):", "\n",
         "structure">>

match_prompt(job, resume) ==
    <<"You are a professional resume analyzer ...", "\n", "\n",
      "Job Requirements:", "\n">> \o json_dumps(job)
    \o <<"\n", "\n", "Resume Details:", "\n">> \o json_dumps(resume)
    \o <<"\n", "\n", "JSON schema example (use same keys, replace values):", "\n",
         "structure">>

cover_prompt(job, resume, match, tone) ==
    <<"Generate a compelling cover letter ...", "Job Details:", "\n">> \o json_dumps(job)
    \o <<"\n", "Candidate Details:", "\n">> \o json_dumps(resume)
    \o <<"\n", "Match Analysis:", "\n">> \o json_dumps(match)
    \o <<"\n", "Tone: ", tone>>

\* a slip that looks at the match report alone
all_present_match_only(job, resume, match) == Truthy(match)

\* job_analysis and resume_analysis and match_analysis
all_present(job, resume, match) == Truthy(job) /\ Truthy(resume) /\ Truthy(match)

\* what a backend call can answer with
BackendTexts == {
    << >>,
    <<"w">>,
    <<"{", "}">>,
    <<" ", "{", "k", "1", "}", "\n">>,
    <<"w", " ", "{", "k", "{", "}", "}", " ", "w">>,
    <<"[", "1", "]">>,
    <<"1">>}

\* a response with the text in its .text, or an error of the backend
BackendAnswers == {TextResponse(t) : t \in BackendTexts} \cup {Raises}

\* one backend call: who made it, what was sent, and what the caller got
\* back from its stage ("raised": the error of the backend, passed on)
Call(stage, prompt, temperature, outcome, ret) ==
    [stage |-> stage, prompt |-> prompt, temperature |-> temperature,
     outcome |-> outcome, ret |-> ret]

UserKeys == {PyNone, PyStr(<< >>), PyStr(<<" ">>), PyStr(<<"K">>)}
Secrets  == {Absent, PyStr(<<"S">>)}
EnvKeys  == {PyNone, PyStr(<<"E">>)}
JobDescs == {<< >>, <<"J", "o", "b">>}
Files    == {"none", "pdf"}
FileTexts == {PyNone, PyStr(<< >>),
              PyStr(<<"S", "K", "I", "L", "L", "S", "\n", "L", "e", "d">>)}

RunInputs ==
    [user_input_key : UserKeys, secret : Secrets, env : EnvKeys,
     job_desc : JobDescs, resume_file : Files, file_text : FileTexts,
     generate_btn : BOOLEAN, client_ok : BOOLEAN,
     model_choice : {SUPPORTED_MODELS[1]}]

InitMain ==
    /\ pc = "start"
    /\ inputs = NoInputs
    /\ api_key = PyNone
    /\ llm = NoClient
    /\ job_analysis = PyNone
    /\ resume_analysis = PyNone
    /\ calls = << >>
    /\ page = << >>
    /\ ExtractIdle
    /\ ResumeIdle
    /\ ClientIdle

\* a run of the script starts: it reads the widgets, the secrets and the
\* environment as they stand
StartRun ==
    /\ pc = "start"
    /\ inputs' \in RunInputs
    /\ pc' = "resolve"
    /\ UNCHANGED <<api_key, llm, job_analysis, resume_analysis, calls, page,
                   extractVars, resumeVars>>
    /\ UNCHANGED clientVars

Ended == pc \in {"done", "stopped", "crashed"}

\* the next interaction runs the script again from the top: nothing of the
\* run before is kept, except what the genai module was configured with
Rerun ==
    /\ Ended
    /\ pc' = "start"
    /\ inputs' = NoInputs
    /\ api_key' = PyNone
    /\ llm' = NoClient
    /\ job_analysis' = PyNone
    /\ resume_analysis' = PyNone
    /\ calls' = << >>
    /\ page' = << >>
    /\ raw' = << >>
    /\ jsonOut' = NotCalled
    /\ resume_text' = << >>
    /\ match_analysis' = PyNone
    /\ resumeOut' = NotBuilt
    /\ UNCHANGED clientVars

\* api_key = resolve_api_key_from_inputs(input_key); if not api_key: st.stop()
ResolveKey ==
    /\ pc = "resolve"
    /\ LET key == resolve_api_key_from_inputs(inputs.user_input_key, inputs.secret,
                                              inputs.env)
       IN  /\ api_key' = key
           /\ IF Truthy(key)
              THEN pc' = "construct" /\ page' = page
              ELSE pc' = "stopped" /\ page' = Append(page, "landing_page")
    /\ UNCHANGED <<inputs, llm, job_analysis, resume_analysis, calls,
                   extractVars, resumeVars>>
    /\ UNCHANGED clientVars

\* llm = LLMClient(api_key=api_key, model_name=model_choice), in try/except
ConstructClient ==
    /\ pc = "construct"
    /\ LET c == LLMClient_init(genai, api_key, inputs.model_choice,
                               PyFloat(DefaultTemperature), inputs.client_ok)
       IN  /\ llm' = c.self
           /\ genai' = c.genai
           /\ IF c.raised = "no"
              THEN pc' = "inputs" /\ page' = page
              ELSE pc' = "stopped" /\ page' = Append(page, "error_failed_to_initialize")
    /\ UNCHANGED <<inputs, api_key, job_analysis, resume_analysis, calls,
                   extractVars, resumeVars, response>>

\* the three returns that ask for the job description and the resume
CheckInputs ==
    /\ pc = "inputs"
    /\ IF inputs.job_desc = << >> /\ inputs.resume_file = "none"
       THEN pc' = "done" /\ page' = Append(page, "info_provide_both")
       ELSE IF inputs.job_desc = << >>
       THEN pc' = "done" /\ page' = Append(page, "warning_paste_job")
       ELSE IF inputs.resume_file = "none"
       THEN pc' = "done" /\ page' = Append(page, "warning_upload_resume")
       ELSE pc' = "load" /\ page' = page
    /\ UNCHANGED <<inputs, api_key, llm, job_analysis, resume_analysis, calls,
                   extractVars, resumeVars>>
    /\ UNCHANGED clientVars

\* a slip that goes on to the analysis whatever load_resume returned
LoadResume_goes_on ==
    /\ pc = "load"
    /\ resume_text' = IF Truthy(inputs.file_text) THEN inputs.file_text.v ELSE << >>
    /\ pc' = "analyze_job"
    /\ page' = page
    /\ UNCHANGED <<inputs, api_key, llm, job_analysis, resume_analysis, calls,
                   extractVars, match_analysis, resumeOut>>
    /\ UNCHANGED clientVars

\* resume_text = load_resume(resume_file); if not resume_text: return
LoadResume ==
    /\ pc = "load"
    /\ IF Truthy(inputs.file_text)
       THEN /\ resume_text' = inputs.file_text.v
            /\ pc' = "analyze_job"
            /\ page' = page
       ELSE /\ resume_text' = << >>
            /\ pc' = "done"
            /\ page' = Append(page, "error_could_not_read")
    /\ UNCHANGED <<inputs, api_key, llm, job_analysis, resume_analysis, calls,
                   extractVars, match_analysis, resumeOut>>
    /\ UNCHANGED clientVars

\* a slip that gives up as soon as the job analysis comes back empty
AnalyzeJob_stop_when_empty ==
    /\ pc = "analyze_job"
    /\ \E answer \in BackendAnswers :
        LET prompt == job_prompt(inputs.job_desc)
            r == generate_text(llm, prompt, PyFloat(1), answer) IN
        IF r.raised
        THEN /\ calls' = Append(calls, Call("analyze_job", r.prompt, r.temperature, "raised", PyNone))
             /\ pc' = "crashed"
             /\ UNCHANGED <<job_analysis, extractVars>>
        ELSE /\ raw' = r.ret
             /\ jsonOut' = generate_json(raw')
             /\ job_analysis' = jsonOut'.ret
             /\ calls' = Append(calls, Call("analyze_job", r.prompt, r.temperature, "returned",
                                            jsonOut'.ret))
             /\ pc' = IF Truthy(jsonOut'.ret) THEN "analyze_resume" ELSE "check"
    /\ UNCHANGED <<inputs, api_key, llm, resume_analysis, page, resumeVars>>
    /\ UNCHANGED clientVars

\* job_analysis = job_analyzer.analyze_job(job_desc)
AnalyzeJob ==
    /\ pc = "analyze_job"
    /\ \E answer \in BackendAnswers :
        LET prompt == job_prompt(inputs.job_desc)
            r == generate_text(llm, prompt, PyFloat(1), answer) IN
        IF r.raised
        THEN /\ calls' = Append(calls, Call("analyze_job", r.prompt, r.temperature, "raised", PyNone))
             /\ pc' = "crashed"
             /\ UNCHANGED <<job_analysis, extractVars>>
        ELSE /\ raw' = r.ret
             /\ jsonOut' = generate_json(raw')
             /\ job_analysis' = jsonOut'.ret
             /\ calls' = Append(calls, Call("analyze_job", r.prompt, r.temperature, "returned",
                                            jsonOut'.ret))
             /\ pc' = "analyze_resume"
    /\ UNCHANGED <<inputs, api_key, llm, resume_analysis, page, resumeVars>>
    /\ UNCHANGED clientVars

\* a slip that tries the backend a second time and carries on empty-handed
AnalyzeResume_retries_and_swallows ==
    /\ pc = "analyze_resume"
    /\ \E answer \in BackendAnswers :
        LET prompt == resume_prompt(resume_text)
            r == generate_text(llm, prompt, PyFloat(1), answer) IN
        IF r.raised
        THEN /\ calls' = calls \o <<Call("analyze_resume", r.prompt, r.temperature, "raised", PyNone),
                                    Call("analyze_resume", r.prompt, r.temperature, "raised", PyNone)>>
             /\ resume_analysis' = EmptyDict
             /\ pc' = "analyze_match"
             /\ UNCHANGED extractVars
        ELSE /\ raw' = r.ret
             /\ jsonOut' = generate_json(raw')
             /\ resume_analysis' = jsonOut'.ret
             /\ calls' = Append(calls, Call("analyze_resume", r.prompt, r.temperature, "returned",
                                            jsonOut'.ret))
             /\ pc' = "analyze_match"
    /\ UNCHANGED <<inputs, api_key, llm, job_analysis, page, resumeVars>>
    /\ UNCHANGED clientVars

\* resume_analysis = job_analyzer.analyze_resume(resume_text)
AnalyzeResume ==
    /\ pc = "analyze_resume"
    /\ \E answer \in BackendAnswers :
        LET prompt == resume_prompt(resume_text)
            r == generate_text(llm, prompt, PyFloat(1), answer) IN
        IF r.raised
        THEN /\ calls' = Append(calls, Call("analyze_resume", r.prompt, r.temperature, "raised", PyNone))
             /\ pc' = "crashed"
             /\ UNCHANGED <<resume_analysis, extractVars>>
        ELSE /\ raw' = r.ret
             /\ jsonOut' = generate_json(raw')
             /\ resume_analysis' = jsonOut'.ret
             /\ calls' = Append(calls, Call("analyze_resume", r.prompt, r.temperature, "returned",
                                            jsonOut'.ret))
             /\ pc' = "analyze_match"
    /\ UNCHANGED <<inputs, api_key, llm, job_analysis, page, resumeVars>>
    /\ UNCHANGED clientVars

\* match_analysis = job_analyzer.analyze_match(job_analysis, resume_analysis)
AnalyzeMatch ==
    /\ pc = "analyze_match"
    /\ \E answer \in BackendAnswers :
        LET prompt == match_prompt(job_analysis, resume_analysis)
            r == generate_text(llm, prompt, PyFloat(2), answer) IN
        IF r.raised
        THEN /\ calls' = Append(calls, Call("analyze_match", r.prompt, r.temperature, "raised", PyNone))
             /\ pc' = "crashed"
             /\ UNCHANGED <<match_analysis, extractVars>>
        ELSE /\ raw' = r.ret
             /\ jsonOut' = generate_json(raw')
             /\ match_analysis' = jsonOut'.ret
             /\ calls' = Append(calls, Call("analyze_match", r.prompt, r.temperature, "returned",
                                            jsonOut'.ret))
             /\ pc' = "check"
    /\ UNCHANGED <<inputs, api_key, llm, job_analysis, resume_analysis, page,
                   resume_text, resumeOut>>
    /\ UNCHANGED clientVars

\* if not (job_analysis and resume_analysis and match_analysis): st.error; return
CheckComplete ==
    /\ pc = "check"
    /\ IF all_present(job_analysis, resume_analysis, match_analysis)
       THEN pc' = "present" /\ page' = Append(page, "success_analysis_completed")
       ELSE pc' = "done" /\ page' = Append(page, "error_insufficient_data")
    /\ UNCHANGED <<inputs, api_key, llm, job_analysis, resume_analysis, calls,
                   extractVars, resumeVars>>
    /\ UNCHANGED clientVars

\* the metrics and the first three tabs: match_analysis.get(...) throughout,
\* which a value that is no dict does not have
PresentResults ==
    /\ pc = "present"
    /\ IF IsDict(match_analysis)
       THEN /\ page' = Append(page, "results")
            /\ pc' = IF inputs.generate_btn THEN "cover_letter" ELSE "updated_resume"
       ELSE /\ page' = page
            /\ pc' = "crashed"
    /\ UNCHANGED <<inputs, api_key, llm, job_analysis, resume_analysis, calls,
                   extractVars, resumeVars>>
    /\ UNCHANGED clientVars

\* if generate_btn: cover_letter = cover_letter_gen.generate_cover_letter(...)
CoverLetter ==
    /\ pc = "cover_letter"
    /\ \E answer \in BackendAnswers :
        LET prompt == cover_prompt(job_analysis, resume_analysis, match_analysis,
                                   "professional")
            r == generate_text(llm, prompt, PyFloat(7), answer) IN
        IF r.raised
        THEN /\ calls' = Append(calls, Call("generate_cover_letter", r.prompt, r.temperature,
                                            "raised", PyNone))
             /\ pc' = "crashed"
             /\ UNCHANGED <<raw, page>>
        ELSE /\ raw' = r.ret
             /\ calls' = Append(calls, Call("generate_cover_letter", r.prompt, r.temperature,
                                            "returned", PyStr(raw')))
             /\ page' = Append(page, "cover_letter")
             /\ pc' = "updated_resume"
    /\ UNCHANGED <<inputs, api_key, llm, job_analysis, resume_analysis, jsonOut,
                   resumeVars>>
    /\ UNCHANGED clientVars

\* updated_resume = generate_updated_resume(resume_text, match_analysis)
UpdatedResume ==
    /\ pc = "updated_resume"
    /\ resumeOut' = [built |-> TRUE,
                     content |-> generate_updated_resume(resume_text, match_analysis)]
    /\ page' = Append(page, "download_enhanced_resume")
    /\ pc' = "done"
    /\ UNCHANGED <<inputs, api_key, llm, job_analysis, resume_analysis, calls,
                   extractVars, resume_text, match_analysis>>
    /\ UNCHANGED clientVars

Next ==
    \/ StartRun
    \/ ResolveKey
    \/ ConstructClient
    \/ CheckInputs
    \/ LoadResume
    \/ AnalyzeJob
    \/ AnalyzeResume
    \/ AnalyzeMatch
    \/ CheckComplete
    \/ PresentResults
    \/ CoverLetter
    \/ UpdatedResume
    \/ Rerun

Init == InitMain

Spec == Init /\ [][Next]_vars

(***************************************************************************)
(* _first_text on its own: any shape of response, then one reading of it.  *)
(***************************************************************************)
PartKinds == {NoTextAttr, PyStr(<<"w">>), PyStr(<<" ">>)}

CandidateShapes == {Broken} \cup {Parts(ps) : ps \in SeqsUpTo(PartKinds, MaxParts)}

CandidatesShapes == {Missing} \cup {Candidates(cs) : cs \in SeqsUpTo(CandidateShapes, MaxCands)}

TextFields == {PyNone, PyStr(<< >>), PyStr(<<" ", "w", "\n">>)}

FewCandidates == {Missing, Candidates(<<Parts(<<PyStr(<<"w">>)>>)>>)}

Responses ==
    {Response(TextRaises, cs) : cs \in CandidatesShapes}
    \cup {Response(tx, cs) : tx \in TextFields, cs \in FewCandidates}

InitText ==
    /\ response \in Responses
    /\ genai = NotConfigured
    /\ pc = "first_text"
    /\ MainData
    /\ ExtractIdle
    /\ ResumeIdle

\* return self._first_text(resp)
FirstText ==
    /\ pc = "first_text"
    /\ raw' = first_text(response)
    /\ pc' = "returned"
    /\ UNCHANGED <<jsonOut, resumeVars, inputs, api_key, llm, job_analysis,
                   resume_analysis, calls, page, clientVars>>

NextText == FirstText

SpecText == InitText /\ [][NextText]_vars

(***************************************************************************)
(* LLMClient on its own: a caller constructs a client with any credential, *)
(* model name and temperature, and calls generate_text and generate_json   *)
(* with or without a temperature.                                          *)
(***************************************************************************)
ClientKeys == {PyNone, PyStr(<< >>), PyStr(<<"K">>)}
ModelNames == {SUPPORTED_MODELS[2], "models/other"}
CtorTemperatures == {PyFloat(DefaultTemperature), PyFloat(15)}
CallTemperatures == {PyNone, PyFloat(7), PyFloat(12), PyFloat(-1)}
ClientPrompts == {<<"p">>}
ClientAnswers ==
    {Raises, TextResponse(<< >>), TextResponse(<<"w">>), TextResponse(<<"{", "}">>),
     Response(TextRaises, Candidates(<<Parts(<<PyStr(<<"w">>)>>)>>))}

InitClient ==
    /\ pc = "new"
    /\ MainData
    /\ ClientIdle
    /\ ExtractIdle
    /\ ResumeIdle

\* LLMClient(api_key=..., model_name=..., temperature=...)
NewClient ==
    /\ pc = "new"
    /\ \E key \in ClientKeys, model_name \in ModelNames,
          temperature \in CtorTemperatures, library_ok \in BOOLEAN :
        LET c == LLMClient_init(genai, key, model_name, temperature, library_ok) IN
        /\ api_key' = key
        /\ llm' = c.self
        /\ genai' = c.genai
        /\ pc' = IF c.raised = "no" THEN "ready" ELSE c.raised
    /\ UNCHANGED <<inputs, job_analysis, resume_analysis, calls, page,
                   extractVars, resumeVars, response>>

\* llm.generate_text(prompt, temperature): there is a client to call it on
CallGenerateText ==
    /\ pc = "ready"
    /\ Len(calls) < MaxCalls
    /\ \E prompt \in ClientPrompts, temperature \in CallTemperatures,
          answer \in ClientAnswers :
        LET r == generate_text(llm, prompt, temperature, answer) IN
        IF r.raised
        THEN /\ calls' = Append(calls, Call("generate_text", r.prompt, r.temperature,
                                            "raised", PyNone))
             /\ UNCHANGED <<raw, response>>
        ELSE /\ response' = answer
             /\ raw' = r.ret
             /\ calls' = Append(calls, Call("generate_text", r.prompt, r.temperature,
                                            "returned", PyStr(raw')))
    /\ UNCHANGED <<pc, inputs, api_key, llm, job_analysis, resume_analysis, page,
                   jsonOut, resumeVars, genai>>

\* llm.generate_json(prompt, temperature)
CallGenerateJson ==
    /\ pc = "ready"
    /\ Len(calls) < MaxCalls
    /\ \E prompt \in ClientPrompts, temperature \in CallTemperatures,
          answer \in ClientAnswers :
        LET r == generate_text(llm, prompt, temperature, answer) IN
        IF r.raised
        THEN /\ calls' = Append(calls, Call("generate_json", r.prompt, r.temperature,
                                            "raised", PyNone))
             /\ UNCHANGED <<raw, jsonOut, response>>
        ELSE /\ response' = answer
             /\ raw' = r.ret
             /\ jsonOut' = generate_json(raw')
             /\ calls' = Append(calls, Call("generate_json", r.prompt, r.temperature,
                                            "returned", jsonOut'.ret))
    /\ UNCHANGED <<pc, inputs, api_key, llm, job_analysis, resume_analysis, page,
                   resumeVars, genai>>

NextClient ==
    \/ NewClient
    \/ CallGenerateText
    \/ CallGenerateJson

SpecClient == InitClient /\ [][NextClient]_vars

(***************************************************************************)
(* Properties of the reading of a response                                 *)
(***************************************************************************)
TextRead == response.text.t # "raises"

\* every candidate of the response can be walked for its parts
Walkable ==
    /\ response.candidates.t = "candidates"
    /\ \A i \in 1..Len(response.candidates.v) : response.candidates.v[i].t = "parts"

CarriesText(part) == part.t = "str" /\ part.v # << >>

\* the texts of the parts that carry text, over the candidates that have
\* parts, candidate by candidate and part by part
CarriedTexts ==
    LET cs == IF response.candidates.t = "candidates" THEN response.candidates.v ELSE << >>
        RECURSIVE ofParts(_, _), ofCands(_)
        ofParts(ps, j) == IF j > Len(ps) THEN << >>
                          ELSE (IF CarriesText(ps[j]) THEN <<ps[j].v>> ELSE << >>)
                               \o ofParts(ps, j + 1)
        ofCands(i) == IF i > Len(cs) THEN << >>
                      ELSE (IF cs[i].t = "parts" THEN ofParts(cs[i].v, 1) ELSE << >>)
                           \o ofCands(i + 1)
    IN  ofCands(1)

AggregatedOrEmpty == IF response.text.t = "str" THEN response.text.v ELSE << >>

\* C11, as stated: the reading returns the trimmed aggregated text when that
\* field can be read, otherwise the newline-joined text of the fragments
\* that carry text, and the empty string when there are none
C11_FirstTextByShape ==
    pc = "returned" =>
        IF TextRead THEN raw = strip(AggregatedOrEmpty)
        ELSE raw = join_newline(CarriedTexts)

\* C11, amended: whatever the shape of the response, the reading returns a
\* string: the trimmed aggregated text when that field can be read (the
\* empty string when it is empty or None); otherwise, when every candidate
\* can be walked, the newline-joined text of the fragments that carry text,
\* trimmed as well; and the empty string when the candidates are missing or
\* one of them cannot be walked, whatever the other fragments carry
C11_FirstTextTrimsOrGivesUp ==
    pc = "returned" =>
        /\ TextRead => raw = strip(AggregatedOrEmpty)
        /\ ~TextRead /\ Walkable => raw = strip(join_newline(CarriedTexts))
        /\ ~TextRead /\ ~Walkable => raw = << >>

\* the text field cannot be read, and two fragments of two candidates are
\* returned joined by a newline
C11_Witness ==
    /\ pc = "returned"
    /\ ~TextRead
    /\ Walkable
    /\ Len(response.candidates.v) = 2
    /\ raw = <<"w", "\n", "w">>

(***************************************************************************)
(* Properties of the backend calls                                         *)
(***************************************************************************)
\* where main() is about to invoke generate_json (the three stages) or
\* generate_text (the cover letter)
StagePcs == {"analyze_job", "analyze_resume", "analyze_match", "cover_letter"}

LastCall(cs) == cs[Len(cs)]

\* C12: every invocation of generate_json or generate_text adds exactly one
\* backend call to those made before, whatever the response holds; and when
\* that call raises, the stage returns nothing: the run ends on the error
\* with no result assigned, nothing extracted and nothing put on the page
C12_OneCallAndErrorsPropagate ==
    [][IF pc \in StagePcs
       THEN /\ Len(calls') = Len(calls) + 1
            /\ SubSeq(calls', 1, Len(calls)) = calls
            /\ LastCall(calls').outcome = "raised" =>
                   /\ pc' = "crashed"
                   /\ job_analysis' = job_analysis
                   /\ resume_analysis' = resume_analysis
                   /\ match_analysis' = match_analysis
                   /\ jsonOut' = jsonOut
                   /\ page' = page
            /\ LastCall(calls').outcome = "returned" => pc' # "crashed"
       ELSE calls' = calls \/ calls' = << >>]_vars

\* the first stage got a response without an object and made one call; the
\* call of the second stage raised and the run ended on the error
C12_Witness ==
    /\ pc = "crashed"
    /\ Len(calls) = 2
    /\ calls[1].outcome = "returned"
    /\ calls[1].ret = EmptyDict
    /\ calls[2].stage = "analyze_resume"
    /\ calls[2].outcome = "raised"
    /\ resume_analysis = PyNone

(***************************************************************************)
(* Properties of the client                                                *)
(***************************************************************************)
\* C13: a construction with an empty or missing credential ends in the
\* ValueError, with the genai module not configured, no model handle and no
\* client; a client exists only for a non-empty credential, and every
\* backend call was made with a non-empty credential configured
C13_NoClientWithoutCredential ==
    /\ pc # "new" /\ ~Truthy(api_key) =>
           /\ pc = "ValueError"
           /\ genai = NotConfigured
           /\ llm = NoClient
           /\ calls = << >>
    /\ llm # NoClient => Truthy(api_key) /\ genai.api_key = api_key /\ genai.handles = 1
    /\ calls # << >> => llm # NoClient /\ Truthy(genai.api_key)

\* the constructor was handed the empty string and raised
C13_Witness ==
    /\ pc = "ValueError"
    /\ api_key = PyStr(<< >>)
    /\ llm = NoClient

InUnitRange(temperature) == temperature.v[1] >= 0 /\ temperature.v[1] <= 10

\* C14: no backend call carries a temperature outside [0,1] (0..10 in
\* tenths), whether it came from the call or from the client's default
C14_TemperatureInUnitRange ==
    \A i \in 1..Len(calls) : InUnitRange(calls[i].temperature)

(***************************************************************************)
(* Properties of the pipeline                                              *)
(***************************************************************************)
StageOrder == <<"analyze_job", "analyze_resume", "analyze_match">>

\* the first n calls of the run are the first n stages, in order, and each
\* returned
StagesReturned(n) ==
    /\ Len(calls) >= n
    /\ \A i \in 1..n : calls[i].stage = StageOrder[i] /\ calls[i].outcome = "returned"

InPage(what) == \E i \in 1..Len(page) : page[i] = what
HasCall(stage) == \E i \in 1..Len(calls) : calls[i].stage = stage

\* what a run cannot do without: a credential, a client, a job
\* description, a resume file and some text read from it
InputsMissing ==
    \/ ~Truthy(resolve_api_key_from_inputs(inputs.user_input_key, inputs.secret, inputs.env))
    \/ ~inputs.client_ok
    \/ inputs.job_desc = << >>
    \/ inputs.resume_file = "none"
    \/ ~Truthy(inputs.file_text)

\* C17: a run that has made a backend call has a non-empty credential, the
\* client made from it, a non-empty job description, a resume file and the
\* non-empty text read from it; a run that lacks one of these has made no
\* call and is before the first stage or has ended
C17_NoCallBeforeRequestFormed ==
    /\ calls # << >> =>
           /\ Truthy(api_key)
           /\ llm # NoClient
           /\ genai.api_key = api_key
           /\ inputs.job_desc # << >>
           /\ inputs.resume_file # "none"
           /\ Truthy(inputs.file_text)
           /\ resume_text = inputs.file_text.v
           /\ resume_text # << >>
    /\ InputsMissing =>
           /\ calls = << >>
           /\ pc \in {"start", "resolve", "construct", "inputs", "load", "stopped", "done"}

\* everything is there but the text of the resume: the run has ended on
\* the error about the file, with a client and without a call
C17_Witness ==
    /\ pc = "done"
    /\ llm # NoClient
    /\ inputs.job_desc # << >>
    /\ inputs.resume_file # "none"
    /\ inputs.file_text = PyStr(<< >>)
    /\ InPage("error_could_not_read")
    /\ calls = << >>

AnyEmpty ==
    \/ job_analysis = EmptyDict
    \/ resume_analysis = EmptyDict
    \/ match_analysis = EmptyDict

\* C8: once the three stages have run, an empty mapping among the three
\* results makes the run report the incomplete analysis and stop: no result
\* is presented, no cover letter is composed, no document is reconstructed.
C8_EmptyStageStopsTheRun ==
    (StagesReturned(3) /\ AnyEmpty) =>
        /\ pc \in {"check", "done"}
        /\ pc = "done" => page = <<"error_insufficient_data">>
        /\ pc = "check" => page = << >>
        /\ ~HasCall("generate_cover_letter")
        /\ ~resumeOut.built

\* only the job analysis is empty, and the run has reported it and stopped
C8_Witness ==
    /\ StagesReturned(3)
    /\ job_analysis = EmptyDict
    /\ Truthy(resume_analysis)
    /\ Truthy(match_analysis)
    /\ inputs.generate_btn
    /\ pc = "done"
    /\ page = <<"error_insufficient_data">>

\* C9: with no backend call raising, the three stages run once each, in the
\* order analyze_job, analyze_resume, analyze_match, whatever the earlier
\* ones returned, and the emptiness check comes only after the third one
\* has returned.
C9_AllStagesRunInOrder ==
    /\ \A i \in 1..Len(calls) :
        (i <= 3 /\ calls[i].stage = StageOrder[i])
        \/ (i = 4 /\ calls[i].stage = "generate_cover_letter")
    /\ (StagesReturned(1) /\ Len(calls) = 1) => pc = "analyze_resume"
    /\ (StagesReturned(2) /\ Len(calls) = 2) => pc = "analyze_match"
    /\ (pc \in {"check", "present", "cover_letter", "updated_resume"}
        \/ InPage("error_insufficient_data")
        \/ InPage("success_analysis_completed")) => StagesReturned(3)

\* the first two stages both came back empty, and the third has still run
C9_Witness ==
    /\ pc = "check"
    /\ StagesReturned(3)
    /\ calls[1].ret = EmptyDict
    /\ calls[2].ret = EmptyDict
    /\ Truthy(calls[3].ret)

\* where the literal piece of text stands in the prompt
IndexOf(prompt, piece) == CHOOSE i \in 1..Len(prompt) : prompt[i] = piece

\* what the prompt of analyze_match holds after "Job Requirements:\n", up
\* to the blank line before "Resume Details:"
JobPart(prompt) ==
    Slice(prompt, IndexOf(prompt, "Job Requirements:") + 2,
                  IndexOf(prompt, "Resume Details:") - 3)

\* ... and after "Resume Details:\n", up to the blank line before the example
ResumePart(prompt) ==
    Slice(prompt, IndexOf(prompt, "Resume Details:") + 2,
                  IndexOf(prompt, "JSON schema example (use same keys, replace values):") - 3)

\* C10: the backend call of analyze_match comes after analyze_job and
\* analyze_resume of the run have returned, and its prompt holds the
\* serialized form of the two values they returned, unchanged, the empty
\* mapping included.
C10_MatchPromptHoldsBothProfiles ==
    \A i \in 1..Len(calls) :
        calls[i].stage = "analyze_match" =>
            /\ i = 3
            /\ StagesReturned(2)
            /\ IsSubstring(json_dumps(calls[1].ret), calls[i].prompt)
            /\ IsSubstring(json_dumps(calls[2].ret), calls[i].prompt)
            /\ JobPart(calls[i].prompt) = json_dumps(calls[1].ret)
            /\ ResumePart(calls[i].prompt) = json_dumps(calls[2].ret)

\* the job profile is the empty mapping, the resume profile is nested
C10_Witness ==
    /\ Len(calls) >= 3
    /\ calls[3].stage = "analyze_match"
    /\ calls[1].ret = EmptyDict
    /\ calls[2].ret = PyDict(<< <<"k", EmptyDict>> >>)
    /\ JobPart(calls[3].prompt) = <<"{", "}">>
    /\ ResumePart(calls[3].prompt) = <<"{", "\n", " ", " ", "k", " ", "{", "}", "\n", "}">>

(***************************************************************************)
(* Properties of the reconstruction                                        *)
(***************************************************************************)
Built == resumeOut.built
Content == resumeOut.content

\* The non-blank lines of a text, trimmed, in order: a line runs from a
\* line start to the character before the next "\n" (or to the end).
LineStarts(s) == {a \in 1..Len(s) : a = 1 \/ s[a - 1] = "\n"}
LineEnd(s, a) ==
    LET ends == {e \in a..Len(s) : s[e] = "\n"} IN
    IF ends = {} THEN Len(s) ELSE Min(ends) - 1
Ink(s, a) == {i \in a..LineEnd(s, a) : s[i] # " "}
NonBlankStarts(s) == {a \in LineStarts(s) : Ink(s, a) # {}}
NthStart(s, k) ==
    CHOOSE a \in NonBlankStarts(s) : Cardinality({b \in NonBlankStarts(s) : b < a}) = k - 1
ExpectedLines(s) ==
    [k \in 1..Cardinality(NonBlankStarts(s)) |->
        LET a == NthStart(s, k) IN SubSeq(s, Min(Ink(s, a)), Max(Ink(s, a)))]

IsAtsHeading(f) == f.kind = "Paragraph" /\ f.text = AtsTitle

\* the index of the spacer that opens the block of suggestions, or the
\* index after the last flowable when there is no such block
AtsStart(c) ==
    IF \E i \in 1..Len(c) : IsAtsHeading(c[i])
    THEN (CHOOSE i \in 1..Len(c) : IsAtsHeading(c[i])) - 1
    ELSE Len(c) + 1

IsParagraph(f) == f.kind = "Paragraph"

\* the paragraphs of the re-flowed resume: after the title and its spacer,
\* before the block of suggestions
FlowParagraphs(c) == SelectSeq(Slice(c, 3, AtsStart(c) - 1), IsParagraph)

\* the line a paragraph of the re-flowed resume shows
LineOf(f) == IF f.style = "bullet_style" THEN Slice(f.text, 3, Len(f.text)) ELSE f.text

\* C5: every non-blank line, trimmed, is emitted exactly once and in input
\* order, blank lines are dropped, a header line as a section header and a
\* content line as a bullet, so that each bullet stands after the nearest
\* header before it and before the next one, and none is lost at the end.
C5_ReflowKeepsEveryLineInOrder ==
    Built =>
        LET ps  == FlowParagraphs(Content)
            exp == ExpectedLines(resume_text)
        IN  /\ Len(ps) = Len(exp)
            /\ \A i \in 1..Len(ps) :
                /\ i <= Len(exp)
                /\ LineOf(ps[i]) = exp[i]
                /\ ps[i].style = IF is_section(exp[i]) THEN "section_header_style"
                                 ELSE "bullet_style"
                /\ ps[i].style = "bullet_style" => Slice(ps[i].text, 1, 2) = BulletMark

\* content before the first header, a blank line that is dropped, a padded
\* line that is trimmed, and a bullet still pending at the end of the input
C5_Witness ==
    /\ Built
    /\ Cardinality(Positions(resume_text, "\n")) = 3
    /\ Len(ExpectedLines(resume_text)) = 3
    /\ IsSubstring(<<"\n", "\n">>, resume_text)
    /\ IsSubstring(<<" ", "L", "e", "d", " ">>, resume_text)
    /\ LET ps == FlowParagraphs(Content) IN
        /\ Len(ps) = 3
        /\ ps[1].style = "bullet_style"
        /\ ps[2].style = "section_header_style"
        /\ ps[3].style = "bullet_style"
        /\ ps[3].text = BulletMark \o <<"L", "e", "d">>

\* the report holds a non-empty sequence of suggestions
HasSuggestions(m) ==
    /\ m.t = "dict"
    /\ HasKey(m, SuggestionKey)
    /\ DictGet(m, SuggestionKey, PyNone).t = "list"
    /\ Len(DictGet(m, SuggestionKey, PyNone).v) > 0

CountParagraphs(c) == Cardinality({i \in 1..Len(c) : IsParagraph(c[i])})

\* C6: with an empty or absent sequence of suggestions, or an empty or null
\* report, no block of suggestions is appended: the output is the title and
\* the re-flowed lines, nothing else.
C6_NoSuggestionsNoBlock ==
    (Built /\ ~HasSuggestions(match_analysis)) =>
        /\ \A i \in 1..Len(Content) :
            /\ ~IsAtsHeading(Content[i])
            /\ Content[i].style # "recommendation_style"
            /\ Content[i].kind = "Spacer" => Content[i].height = 12
        /\ Content[1] = Paragraph(<<"Updated Resume">>, "header_style")
        /\ CountParagraphs(Content) = 1 + Len(ExpectedLines(resume_text))

C6_Witness ==
    /\ Built
    /\ match_analysis = WithSuggestions(<< >>)
    /\ Len(ExpectedLines(resume_text)) >= 2
    /\ CountParagraphs(Content) = 1 + Len(ExpectedLines(resume_text))

\* the flowables of the block of suggestions after its heading and spacer
AtsBody(c) == Slice(c, AtsStart(c) + 3, Len(c))

\* each suggestion's entry ends with a spacer of height 6
EntryEnds(c) == {i \in 1..Len(AtsBody(c)) : AtsBody(c)[i] = Spacer(6)}
NthEnd(c, k) ==
    CHOOSE e \in EntryEnds(c) : Cardinality({d \in EntryEnds(c) : d < e}) = k - 1
\* the lines of the k-th entry
Entry(c, k) ==
    Slice(AtsBody(c), IF k = 1 THEN 1 ELSE NthEnd(c, k - 1) + 1, NthEnd(c, k) - 1)

LabelOf == [f \in {FieldOrder[i] : i \in 1..Len(FieldOrder)} |->
    CASE f = "section"               -> "* Section: "
      [] f = "current_content"       -> "  Current: "
      [] f = "suggested_change"      -> "  Suggestion: "
      [] f = "keywords_to_add"       -> "  Keywords to Add: "
      [] f = "formatting_suggestion" -> "  Formatting: "
      [] f = "reason"                -> "  Reason: "]

AllFields == DOMAIN LabelOf
OptionalFields == AllFields \ {"section"}

\* the entry shows a line for the field
HasLine(entry, f) == \E i \in 1..Len(entry) : entry[i].text[1] = LabelOf[f]

\* the field is there and holds a non-empty string or sequence
Populated(sg, f) ==
    /\ HasKey(sg, f)
    /\ DictGet(sg, f, PyNone).t \in {"str", "list"}
    /\ Len(DictGet(sg, f, PyNone).v) > 0

SuggestionList == DictGet(match_analysis, SuggestionKey, PyNone).v

\* C7: a line is rendered for a field of a suggestion only if that field is
\* non-empty; an empty or absent field produces no line.
C7_OnlyNonEmptyFieldsRendered ==
    (Built /\ HasSuggestions(match_analysis)) =>
        \A k \in 1..Len(SuggestionList) : \A f \in AllFields :
            HasLine(Entry(Content, k), f) => Populated(SuggestionList[k], f)

\* C7, amended: the Section line is rendered for every suggestion, empty or
\* not; each of the other five fields gets a line only if it is non-empty;
\* a suggestion with only section and reason populated renders exactly the
\* Section line and the Reason line.
C7_OptionalFieldsOnlyWhenNonEmpty ==
    (Built /\ HasSuggestions(match_analysis)) =>
        /\ Cardinality(EntryEnds(Content)) = Len(SuggestionList)
        /\ \A k \in 1..Len(SuggestionList) :
            LET e == Entry(Content, k) sg == SuggestionList[k] IN
            /\ Len(e) >= 1
            /\ e[1].text[1] = LabelOf["section"]
            /\ \A i \in 2..Len(e) : e[i].text[1] # LabelOf["section"]
            /\ \A f \in OptionalFields : HasLine(e, f) => Populated(sg, f)
            /\ (\A f \in AllFields : Populated(sg, f) <=> f \in {"section", "reason"})
                => /\ Len(e) = 2
                   /\ e[2].text[1] = LabelOf["reason"]

\* a suggestion with only section and reason populated, the others empty
\* or absent, rendered as two lines
C7_Witness ==
    /\ Built
    /\ HasSuggestions(match_analysis)
    /\ LET sg == SuggestionList[1] IN
        /\ \A f \in AllFields : Populated(sg, f) <=> f \in {"section", "reason"}
        /\ HasKey(sg, "current_content")
        /\ ~HasKey(sg, "suggested_change")
    /\ Len(Entry(Content, 1)) = 2

(***************************************************************************)
(* Properties of the classification of lines                               *)
(***************************************************************************)
Keywords == {
    <<"E", "X", "P", "E", "R", "I", "E", "N", "C", "E">>,
    <<"E", "D", "U", "C", "A", "T", "I", "O", "N">>,
    <<"S", "K", "I", "L", "L", "S">>,
    <<"P", "R", "O", "J", "E", "C", "T", "S">>,
    <<"C", "E", "R", "T", "I", "F", "I", "C", "A", "T", "I", "O", "N", "S">>,
    <<"S", "U", "M", "M", "A", "R", "Y">>,
    <<"O", "B", "J", "E", "C", "T", "I", "V", "E">>}

\* c is the letter C of a keyword, in either case
SameLetter(c, C) == c = C \/ (c \in LowerLetters /\ UpperOf[c] = C)

\* the keyword stands in the line at offset i, whatever the case
KeywordAt(line, kw, i) ==
    /\ i + Len(kw) - 1 <= Len(line)
    /\ \A j \in 1..Len(kw) : SameLetter(line[i + j - 1], kw[j])

KeywordsIn(line) == {kw \in Keywords : \E i \in 1..Len(line) : KeywordAt(line, kw, i)}

\* the line has letters and none of them is lower-case
FullyUpper(line) ==
    /\ \E i \in 1..Len(line) : line[i] \in UpperLetters
    /\ \A i \in 1..Len(line) : line[i] \notin LowerLetters

IsHeaderLine(line) == FullyUpper(line) \/ KeywordsIn(line) # {}

\* C16: the k-th non-blank line is shown by the k-th paragraph and by no
\* other, as a section header if and only if it is fully upper-case or
\* holds one of the seven keywords in any case, and as a bullet otherwise;
\* so an acronym in capitals is a header, and a line with several keywords
\* is one header
C16_HeaderIffUpperOrKeyword ==
    Built =>
        LET ps  == FlowParagraphs(Content)
            exp == ExpectedLines(resume_text)
        IN  /\ Len(ps) = Len(exp)
            /\ \A k \in 1..Len(ps) :
                /\ k <= Len(exp)
                /\ LineOf(ps[k]) = exp[k]
                /\ ps[k].style = "section_header_style" <=> IsHeaderLine(exp[k])
                /\ ps[k].style = "bullet_style" <=> ~IsHeaderLine(exp[k])

\* an acronym in capitals, a line with two keywords and a line of digits:
\* two headers, the second shown once, and a bullet
C16_Witness ==
    /\ Built
    /\ LET ps  == FlowParagraphs(Content)
           exp == ExpectedLines(resume_text)
       IN  /\ Len(exp) = 3
           /\ Len(ps) = 3
           /\ exp[1] = <<"A", "W", "S">>
           /\ KeywordsIn(exp[1]) = {}
           /\ ps[1].style = "section_header_style"
           /\ Cardinality(KeywordsIn(exp[2])) = 2
           /\ ps[2].style = "section_header_style"
           /\ exp[3] = <<"4", "2">>
           /\ ps[3].style = "bullet_style"

(***************************************************************************)
(* Properties of the extractor                                             *)
(***************************************************************************)
Called == jsonOut.steps # << >>

\* some stretch of s is, on its own, one well-formed object
ContainsObject(s) ==
    \E i \in 1..Len(s) : \E j \in i..Len(s) :
        LET r == json_loads(Slice(s, i, j)) IN r.ok /\ IsDict(r.val)

\* s is in its entirety one well-formed object
IsObjectText(s) == LET r == json_loads(s) IN r.ok /\ IsDict(r.val)

NoBraces(s) == \A i \in 1..Len(s) : s[i] \notin {"{", "}"}

\* raw = prefix + object + suffix with brace-free commentary, not both empty
WrappedObject(s, i, j) ==
    /\ 1 <= i /\ i <= j /\ j <= Len(s)
    /\ i > 1 \/ j < Len(s)
    /\ IsObjectText(Slice(s, i, j))
    /\ NoBraces(Slice(s, 1, i - 1))
    /\ NoBraces(Slice(s, j + 1, Len(s)))

\* C1: a text that contains no parseable object is turned into the empty
\* mapping.
C1_NoObjectGivesEmpty ==
    (Called /\ ~ContainsObject(raw)) => jsonOut.ret = EmptyDict

\* C2: a text that is in its entirety one well-formed object yields exactly
\* what parsing the whole text yields, and no span search is run.
C2_WholeObjectIsDirectParse ==
    (Called /\ IsObjectText(raw)) =>
        /\ jsonOut.ret = json_loads(raw).val
        /\ jsonOut.steps = <<"loads_raw">>

C2_Witness ==
    /\ Called
    /\ IsObjectText(raw)
    /\ jsonOut.ret = PyDict(<< <<"k", EmptyDict>> >>)

\* C3: prefix + object + suffix, the commentary holding no brace, yields the
\* mapping of that object, recovered by the span search.
C3_WrappedObjectRecovered ==
    Called =>
        \A i \in 1..Len(raw) : \A j \in i..Len(raw) :
            WrappedObject(raw, i, j) =>
                /\ jsonOut.ret = json_loads(Slice(raw, i, j)).val
                /\ jsonOut.steps[Len(jsonOut.steps)] = "loads_span"

\* C4: whatever the text, the value generate_json returns is a mapping.
C4_ReturnsMapping == Called => IsDict(jsonOut.ret)

\* the span of the pattern "{", anything, "}" at its shortest: from the
\* first "{" to the first "}" after it
FirstBrace(s) == Min(Positions(s, "{"))
HasMinimalSpan(s) ==
    /\ Positions(s, "{") # {}
    /\ \E j \in Positions(s, "}") : j > FirstBrace(s)
MinimalSpan(s) ==
    Slice(s, FirstBrace(s), Min({j \in Positions(s, "}") : j > FirstBrace(s)}))

\* the span from the first "{" to a "}" that ends the text
HasEndSpan(s) == Positions(s, "{") # {} /\ Len(s) > FirstBrace(s) /\ s[Len(s)] = "}"
EndSpan(s) == Slice(s, FirstBrace(s), Len(s))

\* C15: when the whole text does not parse, and the span from the first "{"
\* to the "}" at the end of the text is not there or does not parse, the
\* first minimal "{...}" span is parsed and, when it is well-formed, its
\* value is what the extractor returns
C15_MinimalSpanIsTried ==
    (/\ Called
     /\ ~json_loads(raw).ok
     /\ ~HasEndSpan(raw) \/ ~json_loads(EndSpan(raw)).ok
     /\ HasMinimalSpan(raw)
     /\ json_loads(MinimalSpan(raw)).ok)
    => jsonOut.ret = json_loads(MinimalSpan(raw)).val

====
